---- MODULE Spec2Model ----
(***************************************************************************)
(* Model of gold_trend_bot.py: one invocation of main() loads the state    *)
(* file, fetches price and ATR, and then either pushes a Status message    *)
(* (--mode status) or evaluates the bands / levels and pushes Signals or a *)
(* Heartbeat (--mode run).  Invocations follow one another; the state file *)
(* and the wall clock are what survives from one invocation to the next.   *)
(***************************************************************************)
EXTENDS Integers, Sequences, FiniteSets, TLC

(***************************************************************************)
(* State                                                                   *)
(***************************************************************************)
VARIABLES
  file,       \* gold_trend_state.json
  clock,      \* the last value time.time() returned
  pc,         \* position of the running invocation; "idle" between invocations
  mode,       \* --mode of the running (or last) invocation
  file0,      \* the state file as it was when the invocation started
  stIn,       \* what load_state() returned
  st,         \* the state dictionary in memory
  dataEmpty,  \* d.empty in price_and_atr
  p, a,       \* what price_and_atr returned
  msgs,       \* the msgs list of check_and_alert
  pushed,     \* "n/a" before check_and_alert, then "True" / "False" / "raised"
  hbChecked,  \* the "if not pushed" block has read the clock
  sent,       \* texts handed to tg() by this invocation
  writes,     \* save_state() calls of this invocation
  stderr,     \* what this invocation printed to stderr
  exitCode,   \* exit status of the last finished invocation
  prev,       \* the check_and_alert evaluation before the current one
  prevHb,     \* the last Heartbeat handed to tg() by an earlier invocation
  fxEnv,      \* the FX_USDCNY environment variable
  fn          \* a function under test, its arguments and its result

vars == << file, clock, pc, mode, file0, stIn, st, dataEmpty, p, a, msgs, pushed,
           hbChecked, sent, writes, stderr, exitCode, prev, prevHb, fxEnv, fn >>

\* what no step of main() changes
others == << fxEnv, fn >>

\* the variables of the running program, which applying a function under
\* test leaves alone
program ==
  << file, clock, pc, mode, file0, stIn, st, dataEmpty, p, a, msgs, pushed,
     hbChecked, sent, writes, stderr, exitCode, prev, prevHb, fxEnv >>

(***************************************************************************)
(* Bounds of the model                                                     *)
(***************************************************************************)
\* the clock is read at 0 and, for k = 1..MaxPeriods, at k quiet periods plus
\* k - 1 and plus k seconds: on and just past the heartbeat boundary of a
\* heartbeat sent at the previous such instant
MaxPeriods == 1

(***************************************************************************)
(* CFG (percentages are kept as integers: 0.18 -> 18, 0.30 -> 30)          *)
(***************************************************************************)
NotifyOncePerBand == TRUE
PlanGoldMaxPct == 18
\* fx_usdcny_default 7.2, in tenths
FxUsdCnyDefault == 72
\* OZ_TO_GRAM = 31.1034768, times 10^4 and rounded
OzToGramE4 == 311035

BuyBands ==
  << [name |-> "Band A", low |-> 3920, high |-> 3960, target_plan_pct |-> 30],
     [name |-> "Band B", low |-> 3850, high |-> 3920, target_plan_pct |-> 70],
     [name |-> "Band C", low |-> 3780, high |-> 3850, target_plan_pct |-> 100] >>

UpperConfirm == << 4080, 4100 >>

StopLevels ==
  << [name |-> "Risk-1 trim to 50%", price |-> 3650, action |-> "trim_to_50"],
     [name |-> "Risk-2 cut to 0-30%", price |-> 3520, action |-> "cut_to_0_30"] >>

OptionsLottoEnabled == TRUE
OptionsLottoNotifyOnce == TRUE
CheapBandNames == {"Band B", "Band C"}

\* 6 * 3600 seconds, the heartbeat period of main()
QuietPeriod == 6 * 3600

(***************************************************************************)
(* Inputs                                                                  *)
(***************************************************************************)
\* last close: below both risk levels, in Band C, on the bound shared by
\* Band A and Band B, outside everything, in the upper confirm zone
Prices == {3500, 3800, 3920, 4000, 4090}

\* ATR: <<>> is None (too little history), otherwise a one-element tuple
Atrs == { <<>>, <<0>>, <<20>> }

\* values time.time() returns
ClockValues ==
  {0} \cup { k * (QuietPeriod + 1) - d : k \in 1..MaxPeriods, d \in 0..1 }

\* requests.post: a 2xx response, a non-OK response, or an exception
\* (requests.Timeout / requests.ConnectionError)
TgOutcomes == {"ok", "not_ok", "raise"}

Modes == {"run", "status"}

(***************************************************************************)
(* The state dictionary (st) and the state file                            *)
(***************************************************************************)
\* A JSON value has a shape: "dict" is a mapping whose "notified" (if any) is
\* a mapping, "bad_notified" a mapping whose "notified" is no mapping, "list"
\* and "null" are no mappings at all (their other fields are fillers).
\* {} : every .get() falls back to its default
EmptyState ==
  [shape |-> "dict", notified |-> {}, last_status_ts |-> 0,
   last_summary_ts |-> 0, options_lotto_suggested |-> FALSE]

\* the file: absent, or text that json.load parses into content, or text
\* that json.load rejects
NoFile == [exists |-> FALSE, parses |-> TRUE, content |-> EmptyState]

\* try: json.load(f)  except Exception: return {}
load_state(f) == IF f.exists /\ f.parses THEN f.content ELSE EmptyState

save_state(s) == [exists |-> TRUE, parses |-> TRUE, content |-> s]

\* open(STATE_FILE, "w") has truncated the file and json.dump has not
\* finished: an empty or partial JSON text
Truncated == [exists |-> TRUE, parses |-> FALSE, content |-> EmptyState]

\* save_state in a process that may be killed between open() and the end of
\* json.dump
WriteFile(s, killed) == IF killed THEN Truncated ELSE save_state(s)

\* st.get(...) and st[...] = ... raise on a value that is no mapping
GetRaises(s) == s.shape \in {"list", "null"}

\* the traceback of an AttributeError or TypeError raised by a use of st
StateTraceback == "Traceback: st is no mapping"

\* st.get("notified", {}).get(key, False) and
\* st.setdefault("notified", {})[key] = True raise unless notified is a mapping
NotifiedRaises(s) == s.shape # "dict"

(***************************************************************************)
(* Pure helpers                                                            *)
(***************************************************************************)
\* an in_band that leaves the upper bound out
InBandHalfOpen(price, lo, hi) == lo <= price /\ price < hi

in_band(price, lo, hi) == lo <= price /\ price <= hi

should_once(s, key) == key \notin s.notified

\* a mark_once that forgets to store the flag
MarkOnceForgets(s, key) == s

mark_once(s, key) == [s EXCEPT !.notified = @ \cup {key}]

\* Python truthiness of a (None and 0.0 are falsy)
Truthy(atr) == atr # <<>> /\ atr[1] # 0

\* FX_USDCNY: the raw text, whether float() accepts it, and its value in
\* tenths
FxUnset == [raw |-> "", parses |-> FALSE, v |-> 0]
FxEnvs ==
  { FxUnset,
    [raw |-> "abc", parses |-> FALSE, v |-> 0],
    [raw |-> "0", parses |-> TRUE, v |-> 0],
    [raw |-> "-1", parses |-> TRUE, v |-> -10],
    [raw |-> "7.2", parses |-> TRUE, v |-> 72],
    [raw |-> "7.0", parses |-> TRUE, v |-> 70] }

\* a _get_fx_rate that accepts every number float() parses
GetFxRateAnyNumber(env) ==
  IF env.raw # "" /\ env.parses THEN env.v
  ELSE IF FxUsdCnyDefault > 0 THEN FxUsdCnyDefault ELSE 0

\* _get_fx_rate, in tenths; 0 stands for None
get_fx_rate(env) ==
  IF env.raw # "" /\ env.parses /\ env.v > 0 THEN env.v
  ELSE IF FxUsdCnyDefault > 0 THEN FxUsdCnyDefault ELSE 0

\* "{:.0f}" of n / d
RoundDiv(n, d) == (2 * n + d) \div (2 * d)

\* ", ~{lo:.0f}-{hi:.0f} RMB/g" with lo = low * fx_rate / OZ_TO_GRAM, or ""
RmbPart(b, fx) ==
  IF fx # 0
  THEN << RoundDiv(b.low * fx * 1000, OzToGramE4),
          RoundDiv(b.high * fx * 1000, OzToGramE4) >>
  ELSE << >>

\* the RMB figures of the buy band lines, for every rate FX_USDCNY can give
RmbLines ==
  [fx \in { get_fx_rate(e) : e \in FxEnvs } |->
     [i \in 1..Len(BuyBands) |-> RmbPart(BuyBands[i], fx)]]

\* the text depends on the title, the price, the ATR ("if a:": no ATR block
\* for None and for 0.0) and, in the buy band lines, on the FX rate
fmt_status(env, price, atr, title) ==
  [title |-> title, p |-> price, a |-> IF Truthy(atr) THEN atr ELSE << >>,
   bands |-> RmbLines[get_fx_rate(env)]]

\* the text handed to tg(): the fmt_status text alone (Status, Heartbeat), or
\* header + "--- Realtime signals ---" + the joined messages (Signals)
Body(header, m) == [header |-> header, signals |-> m]

NoKey == << "", "" >>
BuyKey(b) == << "buy_", b.name >>
ConfirmKey == << "upper_confirm", "" >>
StopKey(s) == << "stop_", s.name >>

ActionText(tag) ==
  CASE tag = "trim_to_50" -> "Trim total position to 50% and wait"
    [] tag = "cut_to_0_30" -> "Cut position to 0-30%, re-evaluate"
    [] OTHER -> "Risk action"

(***************************************************************************)
(* check_and_alert: the message list and the mutated state                 *)
(***************************************************************************)
BuyMsg(b, price) ==
  [kind |-> "buy", key |-> BuyKey(b),
   info |-> << b.low, b.high, price, b.target_plan_pct,
               (PlanGoldMaxPct * b.target_plan_pct) \div 10,
               RmbPart(b, get_fx_rate(fxEnv)) >>]

\* a buy-band step that clears the flag again when the price is outside the band
BuyBandStepResets(acc, b, price, onceFlag) ==
  IF acc.raised THEN acc
  ELSE IF in_band(price, b.low, b.high)
  THEN IF NotifiedRaises(acc.st) THEN [acc EXCEPT !.raised = TRUE]
       ELSE IF (~onceFlag) \/ should_once(acc.st, BuyKey(b))
       THEN [acc EXCEPT !.msgs = Append(@, BuyMsg(b, price)),
                        !.st = mark_once(@, BuyKey(b))]
       ELSE acc
  ELSE [acc EXCEPT !.st.notified = @ \ {BuyKey(b)}]

\* acc: the msgs list, st, and whether an exception has ended the evaluation
BuyBandStep(acc, b, price, onceFlag) ==
  IF acc.raised THEN acc
  ELSE IF in_band(price, b.low, b.high)
  THEN IF NotifiedRaises(acc.st) THEN [acc EXCEPT !.raised = TRUE]
       ELSE IF (~onceFlag) \/ should_once(acc.st, BuyKey(b))
       THEN [acc EXCEPT !.msgs = Append(@, BuyMsg(b, price)),
                        !.st = mark_once(@, BuyKey(b))]
       ELSE acc
  ELSE acc

\* a loop over the buy bands that ends at the first band that alerts
RECURSIVE BuyBandsLoopFirstOnly(_, _, _, _)
BuyBandsLoopFirstOnly(i, acc, price, onceFlag) ==
  IF i > Len(BuyBands) THEN acc
  ELSE LET r == BuyBandStep(acc, BuyBands[i], price, onceFlag)
       IN  IF Len(r.msgs) > Len(acc.msgs) THEN r
           ELSE BuyBandsLoopFirstOnly(i + 1, r, price, onceFlag)

RECURSIVE BuyBandsLoop(_, _, _, _)
BuyBandsLoop(i, acc, price, onceFlag) ==
  IF i > Len(BuyBands) THEN acc
  ELSE BuyBandsLoop(i + 1, BuyBandStep(acc, BuyBands[i], price, onceFlag),
                    price, onceFlag)

ConfirmMsg(price) ==
  [kind |-> "confirm", key |-> ConfirmKey,
   info |-> << UpperConfirm[1], UpperConfirm[2], price,
               (PlanGoldMaxPct * 30) \div 10 >>]

ConfirmStep(acc, price, onceFlag) ==
  IF acc.raised THEN acc
  ELSE IF Len(UpperConfirm) = 2 /\ UpperConfirm[1] <= price /\ price <= UpperConfirm[2]
  THEN IF NotifiedRaises(acc.st) THEN [acc EXCEPT !.raised = TRUE]
       ELSE IF (~onceFlag) \/ should_once(acc.st, ConfirmKey)
       THEN [acc EXCEPT !.msgs = Append(@, ConfirmMsg(price)),
                        !.st = mark_once(@, ConfirmKey)]
       ELSE acc
  ELSE acc

RiskMsg(s, price) ==
  [kind |-> "risk", key |-> StopKey(s),
   info |-> << s.price, price, ActionText(s.action) >>]

\* a risk-level step whose mark_once sits outside the price test
StopLevelStepMarksAlways(acc, s, price, onceFlag) ==
  IF acc.raised THEN acc
  ELSE IF price <= s.price /\ ((~onceFlag) \/ should_once(acc.st, StopKey(s)))
  THEN [acc EXCEPT !.msgs = Append(@, RiskMsg(s, price)),
                   !.st = mark_once(@, StopKey(s))]
  ELSE [acc EXCEPT !.st = mark_once(@, StopKey(s))]

\* a risk-level step that fires strictly below the trigger price only
StopLevelStepStrict(acc, s, price, onceFlag) ==
  IF acc.raised THEN acc
  ELSE IF price < s.price
  THEN IF NotifiedRaises(acc.st) THEN [acc EXCEPT !.raised = TRUE]
       ELSE IF (~onceFlag) \/ should_once(acc.st, StopKey(s))
       THEN [acc EXCEPT !.msgs = Append(@, RiskMsg(s, price)),
                        !.st = mark_once(@, StopKey(s))]
       ELSE acc
  ELSE acc

StopLevelStep(acc, s, price, onceFlag) ==
  IF acc.raised THEN acc
  ELSE IF price <= s.price
  THEN IF NotifiedRaises(acc.st) THEN [acc EXCEPT !.raised = TRUE]
       ELSE IF (~onceFlag) \/ should_once(acc.st, StopKey(s))
       THEN [acc EXCEPT !.msgs = Append(@, RiskMsg(s, price)),
                        !.st = mark_once(@, StopKey(s))]
       ELSE acc
  ELSE acc

RECURSIVE StopLevelsLoop(_, _, _, _)
StopLevelsLoop(i, acc, price, onceFlag) ==
  IF i > Len(StopLevels) THEN acc
  ELSE StopLevelsLoop(i + 1, StopLevelStep(acc, StopLevels[i], price, onceFlag),
                      price, onceFlag)

\* "Dynamic stops (3 profiles)": two messages, appended whenever a > 0
DynamicStopsStep(acc, price, atr) ==
  IF acc.raised THEN acc
  ELSE IF Truthy(atr) /\ atr[1] > 0
  THEN [acc EXCEPT !.msgs =
          @ \o << [kind |-> "stops", key |-> NoKey,
                   info |-> << price - atr[1], price - (3 * atr[1]) \div 2,
                               price - 2 * atr[1] >>],
                  [kind |-> "rule", key |-> NoKey, info |-> << >>] >>]
  ELSE acc

\* any(b.name in cheap_band_names and in_band(p, b.low, b.high))
InCheapZone(price) ==
  \E i \in 1..Len(BuyBands) :
     /\ BuyBands[i].name \in CheapBandNames
     /\ in_band(price, BuyBands[i].low, BuyBands[i].high)

\* chainOk: the option chain lookup found an expiry, strikes and a mean
\* implied volatility at or below the threshold (every other outcome of the
\* try block, an exception included, returns None)
options_lotto_check(s, price, chainOk) ==
  IF ~OptionsLottoEnabled THEN [msg |-> FALSE, st |-> s, raised |-> FALSE]
  ELSE IF ~InCheapZone(price) THEN [msg |-> FALSE, st |-> s, raised |-> FALSE]
  ELSE IF OptionsLottoNotifyOnce /\ GetRaises(s)
       THEN [msg |-> FALSE, st |-> s, raised |-> TRUE]
  ELSE IF OptionsLottoNotifyOnce /\ s.options_lotto_suggested
       THEN [msg |-> FALSE, st |-> s, raised |-> FALSE]
  ELSE IF chainOk
       THEN [msg |-> TRUE, st |-> [s EXCEPT !.options_lotto_suggested = TRUE],
             raised |-> FALSE]
  ELSE [msg |-> FALSE, st |-> s, raised |-> FALSE]

LottoStep(acc, price, chainOk) ==
  IF acc.raised THEN acc
  ELSE LET r == options_lotto_check(acc.st, price, chainOk)
       IN  IF r.msg
           THEN [msgs |-> Append(acc.msgs,
                            [kind |-> "lotto", key |-> NoKey, info |-> << >>]),
                 st |-> r.st, raised |-> r.raised]
           ELSE [msgs |-> acc.msgs, st |-> r.st, raised |-> r.raised]

\* an evaluation that appends the dynamic stops before the alerts
EvaluateStopsFirst(s, price, atr, onceFlag, chainOk) ==
  LET a0 == [msgs |-> << >>, st |-> s, raised |-> FALSE]
      a1 == DynamicStopsStep(a0, price, atr)
      a2 == BuyBandsLoop(1, a1, price, onceFlag)
      a3 == ConfirmStep(a2, price, onceFlag)
      a4 == StopLevelsLoop(1, a3, price, onceFlag)
  IN  LottoStep(a4, price, chainOk)

\* lines 375-457 of check_and_alert: msgs and st before "if msgs:"
Evaluate(s, price, atr, onceFlag, chainOk) ==
  LET a0 == [msgs |-> << >>, st |-> s, raised |-> FALSE]
      a1 == BuyBandsLoop(1, a0, price, onceFlag)
      a2 == ConfirmStep(a1, price, onceFlag)
      a3 == StopLevelsLoop(1, a2, price, onceFlag)
      a4 == DynamicStopsStep(a3, price, atr)
  IN  LottoStep(a4, price, chainOk)

\* "if msgs:" -- whether check_and_alert sends and returns True
HasMsgs(m) == m # << >>

\* a check_and_alert that falls through to "return False" after the send
ReturnsFalse(m) == FALSE

\* "return True" after the send, "return False" otherwise
ReturnValue(m) == HasMsgs(m)

\* a heartbeat test with the period doubled
HeartbeatDueTwelveHours(now, last) == now - last > 2 * QuietPeriod

\* a heartbeat test that includes the boundary
HeartbeatDueInclusive(now, last) == now - last >= QuietPeriod

\* "if now - last > 6 * 3600"
HeartbeatDue(now, last) == now - last > QuietPeriod

\* a price_and_atr that returns (0, None) on empty data instead of raising
PriceAndAtrNoRaise(empty, price, atr) ==
  IF empty THEN [raised |-> FALSE, p |-> 0, a |-> << >>]
  ELSE [raised |-> FALSE, p |-> price, a |-> atr]

\* price_and_atr: d.empty raises SystemExit, otherwise (p, a)
price_and_atr(empty, price, atr) ==
  IF empty THEN [raised |-> TRUE, p |-> 0, a |-> << >>]
  ELSE [raised |-> FALSE, p |-> price, a |-> atr]

NoPrev == [valid |-> FALSE, p |-> 0, emitted |-> {}, out |-> {}]

NoPrevHb == [valid |-> FALSE, t |-> 0]

\* no function is under test while the program runs
NoFn == [name |-> "none", done |-> TRUE]

\* keys of the band / zone / level alerts in a message list
Emitted(m) == { m[i].key : i \in { j \in 1..Len(m) : m[j].key # NoKey } }

HeartbeatSent ==
  \E i \in 1..Len(sent) : sent[i].header.title = "Gold Trend | Heartbeat"

\* everything of an invocation that has not started
Fresh ==
  /\ clock = 0
  /\ pc = "idle"
  /\ mode = "run"
  /\ file0 = file
  /\ stIn = EmptyState
  /\ st = EmptyState
  /\ dataEmpty = FALSE
  /\ p = 0
  /\ a = << >>
  /\ msgs = << >>
  /\ pushed = "n/a"
  /\ hbChecked = FALSE
  /\ sent = << >>
  /\ writes = 0
  /\ stderr = << >>
  /\ exitCode = 0
  /\ prev = NoPrev
  /\ prevHb = NoPrevHb

Init ==
  /\ file = NoFile
  /\ fxEnv = FxUnset
  /\ fn = NoFn
  /\ Fresh

\* what the finished invocation leaves for the history variable prev
Remember ==
  IF pushed # "n/a"
  THEN [valid |-> TRUE, p |-> p, emitted |-> Emitted(msgs), out |-> st.notified]
  ELSE prev

\* what the finished invocation leaves for the history variable prevHb
RememberHb ==
  IF HeartbeatSent THEN [valid |-> TRUE, t |-> clock] ELSE prevHb

\* main(), lines 469-480: arguments, secrets, load_state(); hb tells whether
\* the history variable prevHb is kept
Begin(m, secretsOk, hb) ==
  /\ pc = "idle"
  /\ mode' = m
  /\ prev' = Remember
  /\ prevHb' = IF hb THEN RememberHb ELSE prevHb
  /\ file0' = file
  /\ dataEmpty' = FALSE
  /\ p' = 0
  /\ a' = << >>
  /\ msgs' = << >>
  /\ pushed' = "n/a"
  /\ hbChecked' = FALSE
  /\ sent' = << >>
  /\ writes' = 0
  /\ IF secretsOk
     THEN /\ stIn' = load_state(file)
          /\ st' = load_state(file)
          /\ stderr' = << >>
          /\ exitCode' = 0
          /\ pc' = "loaded"
     ELSE /\ stIn' = EmptyState
          /\ st' = EmptyState
          /\ stderr' = << "Missing BOT_TOKEN/CHAT_ID" >>
          /\ exitCode' = 2
          /\ pc' = "idle"
  /\ UNCHANGED << file, clock >>
  /\ UNCHANGED others

Start(m, secretsOk) == Begin(m, secretsOk, FALSE)

\* Start, with the last Heartbeat remembered
StartHb(m, secretsOk) == Begin(m, secretsOk, TRUE)

\* main(), lines 481-482: price_and_atr
Fetch(empty, price, atr) ==
  /\ pc = "loaded"
  /\ dataEmpty' = empty
  /\ LET r == price_and_atr(empty, price, atr)
     IN  IF r.raised
         THEN /\ stderr' = Append(stderr, "empty data for symbol")
              /\ exitCode' = 1
              /\ pc' = "idle"
              /\ UNCHANGED << p, a >>
         ELSE /\ p' = r.p
              /\ a' = r.a
              /\ pc' = "fetched"
              /\ UNCHANGED << stderr, exitCode >>
  /\ UNCHANGED << file, clock, mode, file0, stIn, st, msgs, pushed,
                  hbChecked, sent, writes, prev, prevHb >>
  /\ UNCHANGED others

\* a tail that saves the state before it calls tg
SaveBeforeSend(f, s, tgResult, killed) == WriteFile(s, killed)

\* what "tg(text); save_state(s)" leaves in the file f: nothing new when tg
\* raises, the state otherwise
FileAfterSend(f, s, tgResult, killed) ==
  IF tgResult = "raise" THEN f ELSE WriteFile(s, killed)

\* main(), lines 484-488: status mode
StatusMode(now, tgResult, killed) ==
  /\ pc = "fetched"
  /\ now >= clock
  /\ mode = "status"
  /\ sent' = Append(sent, Body(fmt_status(fxEnv, p, a, "Gold Trend | Status"),
                               << >>))
  /\ pc' = "idle"
  /\ IF tgResult = "raise"
     THEN /\ stderr' = Append(stderr, "Traceback")
          /\ exitCode' = 1
          /\ UNCHANGED << st, file, writes, clock >>
     ELSE /\ clock' = now
          /\ IF GetRaises(st)
             THEN /\ stderr' = Append(stderr, StateTraceback)
                  /\ exitCode' = 1
                  /\ UNCHANGED << st, file, writes >>
             ELSE /\ stderr' = IF tgResult = "not_ok"
                               THEN Append(stderr, "Telegram failed")
                               ELSE stderr
                  /\ st' = [st EXCEPT !.last_status_ts = now]
                  /\ file' = FileAfterSend(file, st', tgResult, killed)
                  /\ writes' = writes + 1
                  /\ exitCode' = IF killed THEN 137 ELSE exitCode
  /\ UNCHANGED << mode, file0, stIn, dataEmpty, p, a, msgs, pushed, hbChecked,
                  prev, prevHb >>
  /\ UNCHANGED others

\* check_and_alert, called from main() line 491
CheckAndAlert(chainOk, tgResult, killed) ==
  /\ pc = "fetched"
  /\ mode = "run"
  /\ LET r == Evaluate(st, p, a, NotifyOncePerBand, chainOk)
         raised == HasMsgs(r.msgs) /\ tgResult = "raise"
     IN  /\ msgs' = r.msgs
         /\ st' = r.st
         /\ IF r.raised
            THEN /\ stderr' = Append(stderr, StateTraceback)
                 /\ exitCode' = 1
                 /\ pushed' = "error"
                 /\ pc' = "idle"
                 /\ UNCHANGED << sent, file, writes >>
            ELSE /\ IF HasMsgs(r.msgs)
                    THEN /\ sent' = Append(sent,
                                      Body(fmt_status(fxEnv, p, a,
                                                      "Gold Trend | Signals"),
                                           r.msgs))
                         /\ file' = FileAfterSend(file, r.st, tgResult, killed)
                         /\ IF tgResult = "raise"
                            THEN /\ stderr' = Append(stderr, "Traceback")
                                 /\ exitCode' = 1
                                 /\ UNCHANGED writes
                            ELSE /\ stderr' = IF tgResult = "not_ok"
                                              THEN Append(stderr, "Telegram failed")
                                              ELSE stderr
                                 /\ writes' = writes + 1
                                 /\ exitCode' = IF killed THEN 137 ELSE exitCode
                    ELSE UNCHANGED << sent, stderr, exitCode, file, writes >>
                 /\ pushed' = IF raised THEN "raised"
                              ELSE IF ReturnValue(r.msgs) THEN "True" ELSE "False"
                 /\ pc' = IF raised \/ ReturnValue(r.msgs) THEN "idle"
                          ELSE "checked"
  /\ UNCHANGED << clock, mode, file0, stIn, p, a, dataEmpty, hbChecked, prev,
                  prevHb >>
  /\ UNCHANGED others

\* main(), lines 492-498: "if not pushed"
Heartbeat(now, tgResult, killed) ==
  /\ pc = "checked"
  /\ now >= clock
  /\ pushed = "False"
  /\ pc' = "idle"
  /\ IF GetRaises(st)
     THEN /\ stderr' = Append(stderr, StateTraceback)
          /\ exitCode' = 1
          /\ UNCHANGED << hbChecked, clock, sent, st, file, writes >>
     ELSE /\ hbChecked' = TRUE
          /\ clock' = now
          /\ IF HeartbeatDue(now, st.last_summary_ts)
             THEN /\ sent' = Append(sent,
                               Body(fmt_status(fxEnv, p, a,
                                               "Gold Trend | Heartbeat"), << >>))
                  /\ IF tgResult = "raise"
                     THEN /\ stderr' = Append(stderr, "Traceback")
                          /\ exitCode' = 1
                          /\ UNCHANGED << st, file, writes >>
                     ELSE /\ stderr' = IF tgResult = "not_ok"
                                       THEN Append(stderr, "Telegram failed")
                                       ELSE stderr
                          /\ st' = [st EXCEPT !.last_summary_ts = now]
                          /\ file' = FileAfterSend(file, st', tgResult, killed)
                          /\ writes' = writes + 1
                          /\ exitCode' = IF killed THEN 137 ELSE exitCode
             ELSE UNCHANGED << sent, stderr, exitCode, st, file, writes >>
  /\ UNCHANGED << mode, file0, stIn, dataEmpty, p, a, msgs, pushed, prev,
                  prevHb >>
  /\ UNCHANGED others

Next ==
  \/ \E m \in Modes, ok \in BOOLEAN : Start(m, ok)
  \/ \E e \in BOOLEAN, price \in Prices, atr \in Atrs : Fetch(e, price, atr)
  \/ \E now \in ClockValues, r \in TgOutcomes : StatusMode(now, r, FALSE)
  \/ \E c \in BOOLEAN, r \in TgOutcomes : CheckAndAlert(c, r, FALSE)
  \/ \E now \in ClockValues, r \in TgOutcomes : Heartbeat(now, r, FALSE)

Spec == Init /\ [][Next]_vars

(***************************************************************************)
(* Properties                                                              *)
(***************************************************************************)
\* the invocation has run check_and_alert
Evaluated == pushed # "n/a"

\* keys whose band, zone or level the price triggers
Triggers(price) ==
  { BuyKey(BuyBands[i]) :
      i \in { j \in 1..Len(BuyBands) :
                in_band(price, BuyBands[j].low, BuyBands[j].high) } }
  \cup (IF UpperConfirm[1] <= price /\ price <= UpperConfirm[2]
        THEN {ConfirmKey} ELSE {})
  \cup { StopKey(StopLevels[i]) :
           i \in { j \in 1..Len(StopLevels) : price <= StopLevels[j].price } }

BuyKeys == { BuyKey(BuyBands[i]) : i \in 1..Len(BuyBands) }

\* the evaluation of this invocation started from the state the evaluation
\* before it left, and saw the same price
SecondAtSamePrice ==
  Evaluated /\ prev.valid /\ prev.p = p /\ prev.out = stIn.notified

\* C1: with notify-once on, an evaluation at a price inside a band whose key
\* is unmarked (an empty state in particular) emits the band's alert, and the
\* next evaluation at the same price, run on the state the first one left,
\* does not emit it again.
OncePerBand ==
  \A k \in BuyKeys :
    (Evaluated /\ NotifyOncePerBand /\ k \in Triggers(p)) =>
       /\ (k \notin stIn.notified => k \in Emitted(msgs))
       /\ (stIn = EmptyState => k \in Emitted(msgs))
       /\ ((SecondAtSamePrice /\ k \in prev.emitted) => k \notin Emitted(msgs))

OncePerBandWitness ==
  /\ SecondAtSamePrice
  /\ BuyKey(BuyBands[1]) \in Triggers(p)
  /\ BuyKey(BuyBands[1]) \in prev.emitted
  /\ BuyKey(BuyBands[1]) \notin Emitted(msgs)

\* C2: a key stored as notified in the state file stays stored across every
\* step of every run and status invocation, a key marked in memory stays
\* marked while the invocation runs, and an evaluation that starts with a key
\* marked does not emit that key's alert, whether or not the price has been
\* outside the band in between.
FlagsKept ==
  /\ file.content.notified \subseteq file'.content.notified
  /\ (pc # "idle" => st.notified \subseteq st'.notified)

MarkedNotEmitted ==
  (Evaluated /\ NotifyOncePerBand) =>
     /\ stIn.notified \cap Emitted(msgs) = {}
     /\ stIn.notified \subseteq st.notified

Reentered(k) ==
  /\ Evaluated
  /\ prev.valid
  /\ k \in stIn.notified
  /\ k \notin Triggers(prev.p)
  /\ k \in Triggers(p)

ReentryPushesAgain ==
  \A k \in BuyKeys : Reentered(k) => k \in Emitted(msgs)

\* C4 (as claimed): the stop note is in the message list only together with
\* a band, zone or level alert, and an evaluation with a positive ATR and no
\* such alert sends nothing and writes nothing.
StopNoteIn(m) == \E i \in 1..Len(m) : m[i].kind = "stops"

StopNoteNotStandalone ==
  Evaluated =>
     /\ (StopNoteIn(msgs) => Emitted(msgs) # {})
     /\ ((Truthy(a) /\ a[1] > 0 /\ Emitted(msgs) = {}) =>
           (msgs = << >> /\ sent = << >> /\ writes = 0 /\ file = file0))

\* C5: in run mode with the price outside every band, zone and level, a
\* Heartbeat is sent only if the clock read is more than 6 hours past
\* last_summary_ts; at exactly 6 hours nothing is sent and last_summary_ts
\* (in memory and in the file) is unchanged.
HeartbeatStrict ==
  (mode = "run" /\ NotifyOncePerBand /\ Evaluated /\ Triggers(p) = {}) =>
     /\ (HeartbeatSent =>
           (hbChecked /\ clock - stIn.last_summary_ts > QuietPeriod))
     /\ ((hbChecked /\ clock - stIn.last_summary_ts = QuietPeriod) =>
           /\ sent = << >>
           /\ st.last_summary_ts = stIn.last_summary_ts
           /\ file = file0)

HeartbeatStrictWitness ==
  /\ mode = "run"
  /\ Triggers(p) = {}
  /\ hbChecked
  /\ clock - stIn.last_summary_ts = QuietPeriod
  /\ sent = << >>

SingleDelivery ==
  /\ Len(sent) <= 1
  /\ writes <= 1
  /\ (Evaluated /\ HasMsgs(msgs)) =>
        /\ sent = << Body(fmt_status(fxEnv, p, a, "Gold Trend | Signals"), msgs) >>
        /\ ~hbChecked
        /\ ~HeartbeatSent
        /\ st.last_summary_ts = stIn.last_summary_ts
        /\ file.content.last_summary_ts = file0.content.last_summary_ts

SingleDeliveryWitness ==
  /\ pc = "idle"
  /\ pushed = "True"
  /\ Emitted(msgs) # {}
  /\ Len(sent) = 1
  /\ sent[1].signals = msgs
  /\ writes = 1
  /\ clock - stIn.last_summary_ts > QuietPeriod

\* C8 (as claimed): when alerts fired in a run cycle, however the delivery
\* call fails, the invocation completes with exit status 0 and the flags set
\* in the cycle are in the state file.
DeliveryFailureNeverRaises ==
  (pc = "idle" /\ Evaluated /\ Emitted(msgs) # {}) =>
     /\ exitCode = 0
     /\ pushed = "True"
     /\ Emitted(msgs) \subseteq file.content.notified

\* C9: in either mode, when the fetch returns no data the invocation ends
\* with a non-zero exit status before any evaluation, nothing is handed to
\* the delivery call, and the state file is what it was at the start.
FetchFailureLeavesNoTrace ==
  dataEmpty =>
     /\ pc = "idle"
     /\ exitCode # 0
     /\ ~Evaluated
     /\ msgs = << >>
     /\ sent = << >>
     /\ writes = 0
     /\ file = file0

FetchFailureWitness ==
  /\ dataEmpty
  /\ mode = "status"
  /\ file0.exists
  /\ file0.content.notified # {}

\* C10: when check_and_alert returns False the state dictionary is what
\* load_state returned and nothing was sent or written; and a run cycle
\* without messages whose heartbeat is not due ends without a delivery call
\* and without a state write.
NoOpLeavesState ==
  (pushed = "False") =>
     /\ msgs = << >>
     /\ (pc = "checked" =>
           (st = stIn /\ sent = << >> /\ writes = 0 /\ file = file0))
     /\ ((pc = "idle" /\ clock - stIn.last_summary_ts <= QuietPeriod) =>
           (st = stIn /\ sent = << >> /\ writes = 0 /\ file = file0))

NoOpWitness ==
  /\ pc = "idle"
  /\ pushed = "False"
  /\ hbChecked
  /\ clock - stIn.last_summary_ts <= QuietPeriod
  /\ Triggers(p) # {}
  /\ InCheapZone(p)
  /\ file0.exists


\* a status invocation has fetched a price and has ended
StatusEnded == pc = "idle" /\ mode = "status" /\ p \in Prices

\* C11 (as claimed): a status invocation with a successful fetch hands the
\* Status text to the delivery call exactly once, sets last_status_ts to the
\* clock read, saves the state, runs no signal evaluation and changes neither
\* a notified flag nor last_summary_ts, whatever the prior state.
StatusAlwaysDelivers ==
  StatusEnded =>
     /\ sent = << Body(fmt_status(fxEnv, p, a, "Gold Trend | Status"), << >>) >>
     /\ st = [stIn EXCEPT !.last_status_ts = clock]
     /\ file = save_state(st)
     /\ writes = 1
     /\ ~Evaluated
     /\ msgs = << >>


(***************************************************************************)
(* Functions under test: fn holds the arguments of one call and, once the  *)
(* call is done, its result                                                 *)
(***************************************************************************)
\* prices on, next to and between the bounds of the bands, zones and levels
FnPrices ==
  {3500, 3520, 3521, 3650, 3800, 3850, 3919, 3920, 3940, 3960, 4000, 4080, 4090}

StopKeys == { StopKey(StopLevels[i]) : i \in 1..Len(StopLevels) }

AllKeys == BuyKeys \cup {ConfirmKey} \cup StopKeys

\* every state dictionary the program can have written
FnStates ==
  { [EmptyState EXCEPT !.notified = n, !.options_lotto_suggested = l] :
      n \in SUBSET AllKeys, l \in BOOLEAN }

NoResult == [msgs |-> << >>, st |-> EmptyState, raised |-> FALSE]

EvaluateCalls ==
  { [name |-> "check_and_alert", done |-> FALSE, s |-> s, price |-> price,
     atr |-> atr, chainOk |-> c, res |-> NoResult] :
      s \in FnStates, price \in FnPrices, atr \in Atrs, c \in BOOLEAN }

\* lines 375-457 of check_and_alert on the arguments in fn
ApplyEvaluate ==
  /\ fn.name = "check_and_alert"
  /\ ~fn.done
  /\ fn' = [fn EXCEPT !.done = TRUE,
                      !.res = Evaluate(fn.s, fn.price, fn.atr,
                                       NotifyOncePerBand, fn.chainOk)]
  /\ UNCHANGED program

\* the position of a message's kind in the claimed order (the stop note is
\* the "Stops (pick one)" text and its "Rule" line); the options hint is
\* outside it
Rank(m) ==
  CASE m.kind = "buy" -> 1
    [] m.kind = "confirm" -> 2
    [] m.kind = "risk" -> 3
    [] m.kind \in {"stops", "rule"} -> 4
    [] OTHER -> 5

\* the position of a message's band or level in buy_bands or stop_levels
Declared(m) ==
  IF m.kind = "buy"
  THEN CHOOSE i \in 1..Len(BuyBands) : BuyKey(BuyBands[i]) = m.key
  ELSE IF m.kind = "risk"
  THEN CHOOSE i \in 1..Len(StopLevels) : StopKey(StopLevels[i]) = m.key
  ELSE 0

InOrder(m) ==
  \A i, j \in 1..Len(m) :
    (i < j /\ Rank(m[i]) < 5 /\ Rank(m[j]) < 5) =>
       /\ Rank(m[i]) <= Rank(m[j])
       /\ (m[i].kind = m[j].kind /\ m[i].kind \in {"buy", "risk"} =>
             Declared(m[i]) < Declared(m[j]))

EvaluateDone == fn.name = "check_and_alert" /\ fn.done

\* C12: in the message list one evaluation builds, buy-band alerts come
\* first, in the order of buy_bands, then the confirm-zone alert, then the
\* risk-level alerts, in the order of stop_levels, then the stop note, for
\* every price, ATR and prior state.
AlertOrderFixed == EvaluateDone => InOrder(fn.res.msgs)

AlertOrderFixedWitness ==
  /\ EvaluateDone
  /\ Len(fn.res.msgs) >= 3
  /\ fn.res.msgs[1].key = BuyKey(BuyBands[1])
  /\ fn.res.msgs[2].key = BuyKey(BuyBands[2])
  /\ fn.res.msgs[3].kind = "stops"

\* in_band is applied to every price and every lo <= hi in 0..MaxVal; a stop
\* level's trigger price and the price it is compared with are drawn from the
\* same range
MaxVal == 4

InBandCalls ==
  { c \in { [name |-> "in_band", done |-> FALSE, price |-> x, lo |-> lo,
             hi |-> hi, res |-> FALSE] :
               x \in 0..MaxVal, lo \in 0..MaxVal, hi \in 0..MaxVal } :
      c.lo <= c.hi }

ApplyInBand ==
  /\ fn.name = "in_band"
  /\ ~fn.done
  /\ fn' = [fn EXCEPT !.done = TRUE, !.res = in_band(fn.price, fn.lo, fn.hi)]
  /\ UNCHANGED program

\* stop levels with a mapped tag, an unmapped tag and no tag ("" is what
\* s.get("action", "") returns for a level without one)
FnLevels ==
  { [name |-> "Risk-T", price |-> t, action |-> tag] :
      t \in 0..MaxVal, tag \in {"trim_to_50", "cut_to_0_30", "hold", ""} }

StopLevelCalls ==
  { [name |-> "stop_level", done |-> FALSE, level |-> l, price |-> x,
     once |-> o, s |-> [EmptyState EXCEPT !.notified = n], res |-> NoResult] :
      l \in FnLevels, x \in 0..MaxVal, o \in BOOLEAN,
      n \in {{}, {<< "stop_", "Risk-T" >>}} }

\* one iteration of the stop_levels loop, lines 426-439
ApplyStopLevelStep ==
  /\ fn.name = "stop_level"
  /\ ~fn.done
  /\ fn' = [fn EXCEPT !.done = TRUE,
                      !.res = StopLevelStep([msgs |-> << >>, st |-> fn.s,
                                             raised |-> FALSE],
                                            fn.level, fn.price, fn.once)]
  /\ UNCHANGED program

Titles == {"Gold Trend | Status", "Gold Trend | Heartbeat", "Gold Trend | Signals"}

FmtStatusCalls ==
  { [name |-> "fmt_status", done |-> FALSE, price |-> x, atr |-> atr,
     title |-> t, res |-> fmt_status(FxUnset, 0, << >>, "")] :
      x \in FnPrices, atr \in Atrs, t \in Titles }

\* fmt_status(cfg, p, a, title) in a process whose environment is fxEnv
ApplyFmtStatus ==
  /\ fn.name = "fmt_status"
  /\ ~fn.done
  /\ fn' = [fn EXCEPT !.done = TRUE,
                      !.res = fmt_status(fxEnv, fn.price, fn.atr, fn.title)]
  /\ UNCHANGED program

InitFn ==
  /\ file = NoFile
  /\ fxEnv \in FxEnvs
  /\ Fresh
  /\ \/ fn \in EvaluateCalls
     \/ fn \in InBandCalls
     \/ fn \in StopLevelCalls
     \/ fn \in FmtStatusCalls

NextFn ==
  \/ ApplyEvaluate
  \/ ApplyInBand
  \/ ApplyStopLevelStep
  \/ ApplyFmtStatus

SpecFn == InitFn /\ [][NextFn]_vars

InBandDone == fn.name = "in_band" /\ fn.done

\* C14: in_band(p, lo, hi) is true for lo < p < hi, true for p = lo and for
\* p = hi, and false for p < lo and for p > hi, for all lo <= hi.
InBandInclusive ==
  InBandDone =>
     /\ (fn.lo < fn.price /\ fn.price < fn.hi => fn.res)
     /\ (fn.price = fn.lo \/ fn.price = fn.hi => fn.res)
     /\ (fn.price < fn.lo \/ fn.price > fn.hi => ~fn.res)

InBandInclusiveWitness ==
  InBandDone /\ fn.lo < fn.hi /\ fn.price = fn.hi /\ fn.res

StopLevelDone == fn.name = "stop_level" /\ fn.done

\* the action text the claim gives for a tag
ClaimedAction(tag) ==
  IF tag = "trim_to_50" THEN "Trim total position to 50% and wait"
  ELSE IF tag = "cut_to_0_30" THEN "Cut position to 0-30%, re-evaluate"
  ELSE "Risk action"

\* C15: for a stop level, when price <= trigger price (equality included) and
\* the once-guard allows it, one risk alert is emitted with the action text
\* of the level's tag ("Risk action" for an unmapped or missing tag) and the
\* key is marked; when price > trigger price no alert is emitted and the key
\* is not marked.
RiskOneSided ==
  StopLevelDone =>
     LET k == StopKey(fn.level)
     IN  /\ (fn.price <= fn.level.price /\ ((~fn.once) \/ k \notin fn.s.notified)) =>
               /\ Len(fn.res.msgs) = 1
               /\ fn.res.msgs[1].kind = "risk"
               /\ fn.res.msgs[1].key = k
               /\ fn.res.msgs[1].info =
                    << fn.level.price, fn.price, ClaimedAction(fn.level.action) >>
               /\ k \in fn.res.st.notified
         /\ (fn.price > fn.level.price) =>
               /\ fn.res.msgs = << >>
               /\ fn.res.st = fn.s

RiskOneSidedWitness ==
  /\ StopLevelDone
  /\ fn.price = fn.level.price
  /\ fn.level.action = ""
  /\ fn.s.notified = {}
  /\ Len(fn.res.msgs) = 1
  /\ fn.res.msgs[1].info[3] = "Risk action"
  /\ StopKey(fn.level) \in fn.res.st.notified

FmtStatusDone == fn.name = "fmt_status" /\ fn.done

DefaultRateEnvs == { e \in FxEnvs : e.raw \in {"", "abc", "0", "-1", "7.2"} }

BandsIndependent ==
  EvaluateDone =>
     /\ \A i \in 1..Len(BuyBands) :
          LET b == BuyBands[i]
              k == BuyKey(b)
              fires == b.low <= fn.price /\ fn.price <= b.high
                         /\ k \notin fn.s.notified
          IN  /\ fires <=> k \in Emitted(fn.res.msgs)
              /\ fires => k \in fn.res.st.notified
     /\ (fn.price = 3920 /\ fn.s.notified \cap BuyKeys = {}) =>
           {BuyKey(BuyBands[1]), BuyKey(BuyBands[2])} \subseteq
              (Emitted(fn.res.msgs) \cap fn.res.st.notified)

BandsIndependentWitness ==
  /\ EvaluateDone
  /\ fn.price = 3920
  /\ fn.s.notified = {BuyKey(BuyBands[3])}
  /\ Emitted(fn.res.msgs) = {BuyKey(BuyBands[1]), BuyKey(BuyBands[2])}
  /\ fn.res.st.notified = BuyKeys


(***************************************************************************)
(* The program started on a state file it did not write                    *)
(***************************************************************************)
\* text json.load rejects, and the JSON texts [], null and {"notified": 5}
CorruptFiles ==
  { Truncated }
  \cup { [exists |-> TRUE, parses |-> TRUE,
          content |-> [EmptyState EXCEPT !.shape = sh]] :
           sh \in {"list", "null", "bad_notified"} }

InitCorrupt ==
  /\ file \in CorruptFiles
  /\ fxEnv = FxUnset
  /\ fn = NoFn
  /\ Fresh

SpecCorrupt == InitCorrupt /\ [][Next]_vars

\* the file is missing, unparsable or of the wrong shape
Corrupt(f) == ~f.exists \/ ~f.parses \/ f.content.shape # "dict"

StateError == \E i \in 1..Len(stderr) : stderr[i] = StateTraceback

\* C13 (as claimed): when the state file the invocation loaded is missing,
\* unparsable or of the wrong shape, no use of the loaded state raises.
CorruptNeverFatal == Corrupt(file0) => ~StateError


(***************************************************************************)
(* The program in a process that can be killed while save_state writes     *)
(***************************************************************************)
NextCrash ==
  \/ \E m \in Modes, ok \in BOOLEAN : Start(m, ok)
  \/ \E e \in BOOLEAN, price \in Prices, atr \in Atrs : Fetch(e, price, atr)
  \/ \E now \in ClockValues, r \in TgOutcomes, k \in BOOLEAN :
        StatusMode(now, r, k)
  \/ \E c \in BOOLEAN, r \in TgOutcomes, k \in BOOLEAN : CheckAndAlert(c, r, k)
  \/ \E now \in ClockValues, r \in TgOutcomes, k \in BOOLEAN :
        Heartbeat(now, r, k)

SpecCrash == Init /\ [][NextCrash]_vars

\* C17 (as claimed): whatever happens during save_state, the state file holds
\* a complete state, the previous one or a new one, and the notified flags
\* the file held when the invocation started are still there on the next
\* load.
AtomicWrites ==
  /\ file.exists => file.parses
  /\ load_state(file0).notified \subseteq load_state(file).notified


(***************************************************************************)
(* Flags on disk, heartbeat spacing                                        *)
(***************************************************************************)
\* the flags the file holds now and did not hold when the invocation started
NewOnDisk == file.content.notified \ file0.content.notified

LottoNewOnDisk ==
  file.content.options_lotto_suggested /\ ~file0.content.options_lotto_suggested

LottoIn(m) == \E i \in 1..Len(m) : m[i].kind = "lotto"

\* the delivery call was made with a Signals text and has returned
SignalsReturned ==
  /\ pushed = "True"
  /\ Len(sent) = 1
  /\ sent[1].header.title = "Gold Trend | Signals"

\* C19: starting from no state file, a key or the options flag that the file
\* holds and did not hold when the invocation started was set by this
\* invocation, whose delivery call carried that alert and returned before
\* the one write; an invocation whose delivery call raised leaves the file
\* as it was, whatever it marked in memory.
FlagsAfterDelivery ==
  /\ (NewOnDisk # {} \/ LottoNewOnDisk) => (SignalsReturned /\ writes = 1)
  /\ \A k \in NewOnDisk : k \in Emitted(sent[1].signals)
  /\ LottoNewOnDisk => LottoIn(sent[1].signals)
  /\ pushed \in {"raised", "n/a"} =>
        (file.content.notified = file0.content.notified /\ ~LottoNewOnDisk)
  /\ pushed = "raised" => file = file0

FlagsAfterDeliveryWitness ==
  /\ pushed = "raised"
  /\ file0.exists
  /\ st.notified # stIn.notified
  /\ st.options_lotto_suggested /\ ~stIn.options_lotto_suggested
  /\ file = file0


\* the program with the time of the last Heartbeat kept across invocations
NextHb ==
  \/ \E m \in Modes, ok \in BOOLEAN : StartHb(m, ok)
  \/ \E e \in BOOLEAN, price \in Prices, atr \in Atrs : Fetch(e, price, atr)
  \/ \E now \in ClockValues, r \in TgOutcomes : StatusMode(now, r, FALSE)
  \/ \E c \in BOOLEAN, r \in TgOutcomes : CheckAndAlert(c, r, FALSE)
  \/ \E now \in ClockValues, r \in TgOutcomes : Heartbeat(now, r, FALSE)

SpecHb == Init /\ [][NextHb]_vars

\* C20 (as claimed): over run and status invocations with a non-decreasing
\* clock, the last_summary_ts on disk changes only in an invocation that
\* sent a Heartbeat, never decreases, and a Heartbeat is sent more than 6
\* hours after the Heartbeat before it.
HeartbeatSpacing ==
  /\ file.content.last_summary_ts >= file0.content.last_summary_ts
  /\ file.content.last_summary_ts # file0.content.last_summary_ts => HeartbeatSent
  /\ (HeartbeatSent /\ prevHb.valid) => clock - prevHb.t > QuietPeriod

====
